---------------------------- MODULE Spec2Model ----------------------------
(***************************************************************************)
(* GREENLOGISTICS AI backend (src/backend/main.py).                        *)
(*                                                                         *)
(* The model covers the startup code that builds the Anthropic client,     *)
(* the three endpoints (GET /, GET /api/health, POST /api/analyze) and     *)
(* the helpers of the analyze handler: the temporary file of an upload,    *)
(* the text extraction by extension, the demo fallback, the call to the    *)
(* language-model service and the mapping of exceptions to HTTP status.    *)
(*                                                                         *)
(* Python values are encoded as follows.                                   *)
(*   Optional[T]   a sequence of length 0 (None) or 1 (the value)          *)
(*   str           a sequence of one-character strings                     *)
(*   bytes         a sequence of byte values (naturals)                    *)
(*   a call that may raise   [ok |-> TRUE, value |-> v] or                 *)
(*                           [ok |-> FALSE, exc |-> e]                     *)
(***************************************************************************)
EXTENDS Naturals, Sequences, FiniteSets, TLC

(***************************************************************************)
(* Bounds of the model.                                                    *)
(***************************************************************************)
\* longest uploaded content (bytes) and longest raw text (characters)
MaxLen == 2
\* requests received in one behaviour
MaxRequests == 2
\* requests handled concurrently (specification SpecConc)
NumReqs == 2
\* names the temporary directory can hand out
MaxTmp == 2

None == << >>
Some(v) == << v >>

RECURSIVE SeqsUpTo(_, _)
SeqsUpTo(S, n) ==
    IF n = 0 THEN { << >> }
    ELSE LET shorter == SeqsUpTo(S, n - 1)
         IN  shorter \cup { Append(s, x) : s \in { t \in shorter : Len(t) = n - 1 }, x \in S }

(***************************************************************************)
(* Python str and bytes operations used by the handler.                    *)
(***************************************************************************)
\* str.strip() with no argument removes leading and trailing whitespace
IsSpace(c) == c \in { " ", "\n" }

RECURSIVE LStrip(_)
LStrip(s) == IF s # << >> /\ IsSpace(Head(s)) THEN LStrip(Tail(s)) ELSE s

RECURSIVE RStrip(_)
RStrip(s) ==
    IF s # << >> /\ IsSpace(s[Len(s)]) THEN RStrip(SubSeq(s, 1, Len(s) - 1)) ELSE s

Strip(s) == RStrip(LStrip(s))

\* str.lower() on the characters file names are drawn from
LowerChar(c) ==
    CASE c = "P" -> "p"
      [] c = "D" -> "d"
      [] c = "F" -> "f"
      [] c = "R" -> "r"
      [] OTHER   -> c

Lower(s) == [ i \in 1..Len(s) |-> LowerChar(s[i]) ]

\* str.endswith(suffix)
EndsWith(s, suffix) ==
    /\ Len(s) >= Len(suffix)
    /\ SubSeq(s, Len(s) - Len(suffix) + 1, Len(s)) = suffix

\* The bytes uploads are made of: space, "%", "a", and 0xFF, which no UTF-8
\* encoding contains.
Byte == { 32, 37, 97, 255 }

ValidUtf8(b) == b # 255

DecodeByte(b) ==
    CASE b = 32 -> " "
      [] b = 37 -> "%"
      [] b = 97 -> "a"

\* bytes.decode('utf-8') / a text-mode read with encoding='utf-8': errors='strict'
Utf8DecodeStrict(bytes) ==
    IF \A i \in 1..Len(bytes) : ValidUtf8(bytes[i])
    THEN [ok |-> TRUE, value |-> [ i \in 1..Len(bytes) |-> DecodeByte(bytes[i]) ]]
    ELSE [ok |-> FALSE, exc |-> [type |-> "UnicodeDecodeError"]]

\* bytes.decode('utf-8', errors='ignore'): the invalid bytes are dropped
RECURSIVE Utf8DecodeIgnore(_)
Utf8DecodeIgnore(bytes) ==
    IF bytes = << >> THEN << >>
    ELSE IF ValidUtf8(Head(bytes))
         THEN << DecodeByte(Head(bytes)) >> \o Utf8DecodeIgnore(Tail(bytes))
         ELSE Utf8DecodeIgnore(Tail(bytes))

(***************************************************************************)
(* PyPDF2.  A document is a PDF when it starts with "%"; every byte after  *)
(* the header is one page: "a" a page with the text "a", a space a page    *)
(* with the text " ", 0xFF a page with no extractable text (an image), and *)
(* "%" a page whose text is "%".  Anything else fails to parse.            *)
(***************************************************************************)
PageText(b) ==
    CASE b = 97  -> << "a" >>
      [] b = 32  -> << " " >>
      [] b = 37  -> << "%" >>
      [] b = 255 -> << >>

PdfReader(bytes) ==
    IF bytes # << >> /\ Head(bytes) = 37
    THEN [ok |-> TRUE, value |-> [ i \in 1..(Len(bytes) - 1) |-> PageText(bytes[i + 1]) ]]
    ELSE [ok |-> FALSE, exc |-> [type |-> "PdfReadError"]]

HTTPException(status, detail) ==
    [type |-> "HTTPException", status_code |-> status, detail |-> detail]

\* open(path): the file's bytes, or FileNotFoundError
OpenFile(files, path) ==
    IF path \in DOMAIN files
    THEN [ok |-> TRUE, value |-> files[path]]
    ELSE [ok |-> FALSE, exc |-> [type |-> "FileNotFoundError"]]

RECURSIVE JoinPages(_)
JoinPages(pages) ==
    IF pages = << >> THEN << >>
    ELSE IF Head(pages) # << >>
         THEN Head(pages) \o << "\n" >> \o JoinPages(Tail(pages))
         ELSE JoinPages(Tail(pages))

extract_text_from_pdf(files, path) ==
    LET f == OpenFile(files, path)
        reader == PdfReader(f.value)
    IN  IF ~f.ok \/ ~reader.ok
        THEN [ok |-> FALSE, exc |-> HTTPException(400, "Error leyendo PDF")]
        ELSE [ok |-> TRUE, value |-> Strip(JoinPages(reader.value))]

extract_text_from_txt(files, path) ==
    LET f == OpenFile(files, path)
        text == Utf8DecodeStrict(f.value)
    IN  IF ~f.ok \/ ~text.ok
        THEN [ok |-> FALSE, exc |-> HTTPException(400, "Error leyendo archivo de texto")]
        ELSE [ok |-> TRUE, value |-> text.value]


(***************************************************************************)
(* process_uploaded_file, as pure steps.                                   *)
(***************************************************************************)
\* a fixed name instead of a fresh one
NamedTemporaryFile_fixed(files) == { 1 }

\* tempfile.NamedTemporaryFile(delete=False, suffix=...): the names it may
\* return.  A name is its random part (the suffix, the same for every upload
\* of one file name, is left out).  mkstemp opens with O_EXCL, so the name is
\* one no file has.
NamedTemporaryFile(files) == (1..MaxTmp) \ DOMAIN files

\* the check without the strip
IsEmptyDocument_nostrip(document_text) == document_text = << >>

\* line 198: `if not document_text.strip()`
IsEmptyDocument(document_text) == Strip(document_text) = << >>

PdfSuffix == << ".", "p", "d", "f" >>
TxtSuffixes ==
    { << ".", "t", "x", "t" >>, << ".", "d", "o", "c" >>, << ".", "d", "o", "c", "x" >> }

\* lines 187-196: the extraction chosen by the file name
ExtractByExtension(files, path, filename, content) ==
    LET filename_lower == Lower(filename)
    IN  IF EndsWith(filename_lower, PdfSuffix)
        THEN extract_text_from_pdf(files, path)
        ELSE IF \E suffix \in TxtSuffixes : EndsWith(filename_lower, suffix)
             THEN extract_text_from_txt(files, path)
             ELSE [ok |-> TRUE, value |-> Utf8DecodeIgnore(content)]

\* lines 185-199: the body of the try block
ExtractDocument(files, path, filename, content) ==
    LET extracted == ExtractByExtension(files, path, filename, content)
    IN  IF extracted.ok /\ IsEmptyDocument(extracted.value)
        THEN [ok |-> FALSE,
              exc |-> HTTPException(400, "El documento esta vacio o no se pudo extraer texto")]
        ELSE extracted

\* lines 203-206: os.unlink in a try whose except clause swallows the error
Unlink(files, path) == [ p \in DOMAIN files \ { path } |-> files[p] ]

(***************************************************************************)
(* Startup (lines 45-59) and the responses.                                *)
(***************************************************************************)
Placeholder == "sk-ant-tu_clave_aqui"

\* Python truthiness of an Optional[str]: the environment variable (a
\* string) and the text form field (a sequence of characters)
Truthy(opt) == opt # None /\ opt[1] # ""

\* `text is not None` instead of `text`
TruthyText_not_none(opt) == opt # None

TruthyText(opt) == opt # None /\ opt[1] # << >>

\* lines 52-59: client stays None unless the key is set, is not the
\* placeholder, and anthropic.Anthropic(...) does not raise
StartupClient(key, ctorRaises) ==
    IF Truthy(key) /\ key[1] # Placeholder /\ ~ctorRaises
    THEN Some("Anthropic")
    ELSE None

JSONResponse(body) == [status_code |-> 200, body |-> body]

ErrorResponse(status, detail) == [status_code |-> status, detail |-> detail]

\* the demo response with the default language instead of the request's
get_demo_response_default_language(document_text, language) ==
    [success  |-> TRUE,
     analysis |-> [template |-> "ANALISIS DE DEMOSTRACION",
                   chars    |-> Len(document_text),
                   language |-> "ES"],
     metadata |-> [mode            |-> "demo",
                   chars_processed |-> Len(document_text),
                   language        |-> "ES",
                   model           |-> "none"]]

get_demo_response(document_text, language) ==
    [success  |-> TRUE,
     analysis |-> [template |-> "ANALISIS DE DEMOSTRACION",
                   chars    |-> Len(document_text),
                   language |-> language],
     metadata |-> [mode            |-> "demo",
                   chars_processed |-> Len(document_text),
                   language        |-> language,
                   model           |-> "none"]]

\* the except clauses with `except Exception` first
HandleException_generic_first(exc) ==
    [status_code |-> 500, detail |-> "Error interno del servidor"]

\* lines 368-382: the except clauses of analyze_document, in order
HandleException(exc) ==
    IF exc.type = "APIError"
    THEN ErrorResponse(502, "Error en el servicio de IA")
    ELSE IF exc.type = "HTTPException"
         THEN ErrorResponse(exc.status_code, exc.detail)
         ELSE ErrorResponse(500, "Error interno del servidor")

\* line 354: response.content[0].text
FirstBlockText(response) ==
    IF response.content = << >>
    THEN [ok |-> FALSE, exc |-> [type |-> "IndexError"]]
    ELSE IF "text" \notin DOMAIN response.content[1]
         THEN [ok |-> FALSE, exc |-> [type |-> "AttributeError"]]
         ELSE [ok |-> TRUE, value |-> response.content[1].text]

\* lines 352-363
ProductionResult(response, document_text, language) ==
    [success  |-> TRUE,
     analysis |-> FirstBlockText(response).value,
     metadata |-> [tokens_used    |-> response.usage.input_tokens,
                   model          |-> "claude-3-haiku-20240307",
                   language       |-> language,
                   document_chars |-> Len(document_text),
                   api_mode       |-> "production"]]

\* line 267
ApiKeyConfigured(key) == key # None /\ key[1] # Placeholder

(***************************************************************************)
(* The environment: startup configurations, requests, service replies.     *)
(***************************************************************************)
Keys == { None, Some(""), Some(Placeholder), Some("sk-ant-api03-valid") }

Filenames ==
    { << "r", ".", "p", "d", "f" >>,
      << "R", ".", "P", "D", "F" >>,
      << "n", ".", "t", "x", "t" >>,
      << "n", ".", "d", "o", "c" >>,
      << "n", ".", "d", "o", "c", "x" >>,
      << "d", ".", "b", "i", "n" >> }

Languages == { None, Some("EN") }

\* language: str = Form("ES")
FormLanguage(opt) == IF opt = None THEN "ES" ELSE opt[1]

Texts == { None } \cup { Some(t) : t \in SeqsUpTo({ "a", " " }, MaxLen) }

Uploads == { [filename |-> f, bytes |-> b] : f \in Filenames, b \in SeqsUpTo(Byte, MaxLen) }

AnalyzeRequests ==
    { [endpoint |-> "analyze", file |-> None, text |-> t, language |-> l] :
        t \in Texts, l \in Languages }
    \cup
    { [endpoint |-> "analyze", file |-> Some(u), text |-> None, language |-> None] :
        u \in Uploads }
    \cup
    { [endpoint |-> "analyze", file |-> Some(u), text |-> Some(<< "a" >>), language |-> Some("EN")] :
        u \in Uploads }

\* the requests of the concurrent specification
ConcUploads ==
    { [filename |-> << "n", ".", "t", "x", "t" >>, bytes |-> << 97 >>],
      [filename |-> << "n", ".", "t", "x", "t" >>, bytes |-> << 32 >>],
      [filename |-> << "r", ".", "p", "d", "f" >>, bytes |-> << 37, 97 >>] }

ConcRequests ==
    { [endpoint |-> "analyze", file |-> None, text |-> t, language |-> None] :
        t \in { None, Some(<< "a" >>) } }
    \cup
    { [endpoint |-> "analyze", file |-> Some(u), text |-> None, language |-> None] :
        u \in ConcUploads }

TextBlock(t) == [type |-> "text", text |-> t]

\* what client.messages.create may do: return a Message, or raise an
\* anthropic.APIError (status, connection, timeout)
Replies ==
    { [ok |-> FALSE, exc |-> [type |-> "APIError"]] }
    \cup
    { [ok |-> TRUE, value |-> [content |-> c, usage |-> [input_tokens |-> 7]]] :
        c \in { << >>,
                << TextBlock("INFORME") >>,
                << TextBlock("") >>,
                << TextBlock("INFORME"), TextBlock("ANEXO") >>,
                << [type |-> "tool_use"] >> } }

\* what `await file.read(); tmp.write(content)` may do
UploadOutcomes == { "ok", "read_error", "write_error" }

(***************************************************************************)
(* State.                                                                  *)
(***************************************************************************)
VARIABLES
    ANTHROPIC_API_KEY,  \* os.getenv("ANTHROPIC_API_KEY"), Optional string
    client,             \* the module-level client, Optional
    files,              \* the temporary directory: name -> bytes
    pc,                 \* where each request is in its handler
    request,            \* the request a worker is handling, Optional
    tmp,                \* the name of the request's NamedTemporaryFile, Optional
    content,            \* local `content` of process_uploaded_file, Optional
    pending,            \* outcome of the try block, waiting for the finally
    document_text,      \* local `document_text` of analyze_document, Optional
    reply,              \* what client.messages.create did for the request, Optional
    upload,             \* what reading and writing the upload did, Optional
    response,           \* the HTTP response of the request, Optional
    received,           \* requests received so far
    dispatched,         \* requests that reached the call of the service
    api_calls           \* calls of client.messages.create so far

vars ==
    << ANTHROPIC_API_KEY, client, files, pc, request, tmp, content, pending,
       document_text, reply, upload, response, received, dispatched, api_calls >>

locals == << tmp, content, pending, document_text, reply, upload >>

Reqs == 1..NumReqs

Init ==
    /\ ANTHROPIC_API_KEY \in Keys
    /\ \E ctorRaises \in BOOLEAN : client = StartupClient(ANTHROPIC_API_KEY, ctorRaises)
    /\ files = << >>
    /\ pc = [ r \in Reqs |-> "idle" ]
    /\ request = [ r \in Reqs |-> None ]
    /\ tmp = [ r \in Reqs |-> None ]
    /\ content = [ r \in Reqs |-> None ]
    /\ pending = [ r \in Reqs |-> None ]
    /\ document_text = [ r \in Reqs |-> None ]
    /\ reply = [ r \in Reqs |-> None ]
    /\ upload = [ r \in Reqs |-> None ]
    /\ response = [ r \in Reqs |-> None ]
    /\ received = 0
    /\ dispatched = 0
    /\ api_calls = 0

\* the handler ends: the response (or the exception, mapped by the except
\* clauses) leaves
Finish(r, resp) ==
    /\ response' = [response EXCEPT ![r] = Some(resp)]
    /\ pc' = [pc EXCEPT ![r] = "done"]

Raise(r, exc) == Finish(r, HandleException(exc))

(***************************************************************************)
(* GET / (lines 257-268) and GET /api/health (lines 270-279).              *)
(***************************************************************************)
root(r) ==
    /\ pc[r] = "idle"
    /\ received < MaxRequests
    /\ received' = received + 1
    /\ request' = [request EXCEPT ![r] = Some([endpoint |-> "root"])]
    /\ Finish(r, JSONResponse([service |-> "GREENLOGISTICS AI API",
                               status |-> "operational",
                               api_key_configured |-> ApiKeyConfigured(ANTHROPIC_API_KEY)]))
    /\ UNCHANGED << ANTHROPIC_API_KEY, client, files, locals, dispatched, api_calls >>

health_check(r) ==
    /\ pc[r] = "idle"
    /\ received < MaxRequests
    /\ received' = received + 1
    /\ request' = [request EXCEPT ![r] = Some([endpoint |-> "health"])]
    /\ Finish(r, JSONResponse([status |-> "healthy",
                               ai_available |-> client # None]))
    /\ UNCHANGED << ANTHROPIC_API_KEY, client, files, locals, dispatched, api_calls >>

(***************************************************************************)
(* POST /api/analyze (lines 281-382).                                      *)
(***************************************************************************)
\* lines 296-312: the request arrives and the handler picks its source
analyze_document(r, req) ==
    /\ pc[r] = "idle"
    /\ received < MaxRequests
    /\ received' = received + 1
    /\ request' = [request EXCEPT ![r] = Some(req)]
    /\ IF req.file # None
       THEN /\ pc' = [pc EXCEPT ![r] = "tempfile"]
            /\ UNCHANGED << document_text, response >>
       ELSE IF TruthyText(req.text)
            THEN /\ document_text' = [document_text EXCEPT ![r] = Some(Strip(req.text[1]))]
                 /\ pc' = [pc EXCEPT ![r] = "validate"]
                 /\ UNCHANGED response
            ELSE /\ Raise(r, HTTPException(400, "Debe proporcionar un archivo (file) o texto (text)"))
                 /\ UNCHANGED document_text
    /\ UNCHANGED << ANTHROPIC_API_KEY, client, files, tmp, content, pending, reply,
                    upload, dispatched, api_calls >>

\* line 180: the temporary file is created, empty
CreateTemp(r) ==
    /\ pc[r] = "tempfile"
    /\ \E name \in NamedTemporaryFile(files) :
          /\ tmp' = [tmp EXCEPT ![r] = Some(name)]
          /\ files' = (name :> << >>) @@ files
    /\ pc' = [pc EXCEPT ![r] = "read"]
    /\ UNCHANGED << ANTHROPIC_API_KEY, client, request, content, pending, document_text,
                    reply, upload, response, received, dispatched, api_calls >>

\* lines 181-183: `content = await file.read(); tmp.write(content)`, and the
\* with block closes the file.  Either call may raise; the exception leaves
\* process_uploaded_file (the try block has not been entered) and reaches the
\* except clauses of analyze_document.
ReadUpload(r) ==
    /\ pc[r] = "read"
    /\ \E outcome \in UploadOutcomes :
          /\ upload' = [upload EXCEPT ![r] = Some(outcome)]
          /\ IF outcome = "ok"
             THEN /\ content' = [content EXCEPT ![r] = Some(request[r][1].file[1].bytes)]
                  /\ files' = IF tmp[r][1] \in DOMAIN files
                              THEN [files EXCEPT ![tmp[r][1]] = request[r][1].file[1].bytes]
                              ELSE files
                  /\ pc' = [pc EXCEPT ![r] = "extract"]
                  /\ UNCHANGED response
             ELSE /\ content' = [content EXCEPT ![r] =
                                    IF outcome = "write_error"
                                    THEN Some(request[r][1].file[1].bytes)
                                    ELSE None]
                  /\ Raise(r, [type |-> "OSError"])
                  /\ UNCHANGED files
    /\ UNCHANGED << ANTHROPIC_API_KEY, client, request, tmp, pending, document_text,
                    reply, received, dispatched, api_calls >>

\* lines 185-199: the try block; what it returns or raises waits for the finally
Extract(r) ==
    /\ pc[r] = "extract"
    /\ pending' = [pending EXCEPT ![r] =
                      Some(ExtractDocument(files, tmp[r][1],
                                           request[r][1].file[1].filename,
                                           content[r][1]))]
    /\ pc' = [pc EXCEPT ![r] = "cleanup"]
    /\ UNCHANGED << ANTHROPIC_API_KEY, client, files, request, tmp, content, document_text,
                    reply, upload, response, received, dispatched, api_calls >>

\* lines 201-208: the finally block, then the return or the pending exception
Cleanup(r) ==
    /\ pc[r] = "cleanup"
    /\ files' = Unlink(files, tmp[r][1])
    /\ IF pending[r][1].ok
       THEN /\ document_text' = [document_text EXCEPT ![r] = Some(pending[r][1].value)]
            /\ pc' = [pc EXCEPT ![r] = "validate"]
            /\ UNCHANGED response
       ELSE /\ Raise(r, pending[r][1].exc)
            /\ UNCHANGED document_text
    /\ UNCHANGED << ANTHROPIC_API_KEY, client, request, tmp, content, pending,
                    reply, upload, received, dispatched, api_calls >>

\* lines 314-322: the empty check and the demo fallback
Validate(r) ==
    /\ pc[r] = "validate"
    /\ IF document_text[r][1] = << >>
       THEN /\ Raise(r, HTTPException(400, "El documento esta vacio"))
            /\ UNCHANGED dispatched
       ELSE IF client = None
            THEN /\ Finish(r, JSONResponse(get_demo_response(
                                   document_text[r][1],
                                   FormLanguage(request[r][1].language))))
                 /\ UNCHANGED dispatched
            ELSE /\ pc' = [pc EXCEPT ![r] = "call"]
                 /\ dispatched' = dispatched + 1
                 /\ UNCHANGED response
    /\ UNCHANGED << ANTHROPIC_API_KEY, client, files, request, locals, received, api_calls >>

\* the call repeated once after an APIError
CallClaude_retry(r) ==
    /\ pc[r] = "call"
    /\ \E first \in Replies, second \in Replies :
          LET rep == IF first.ok THEN first ELSE second
          IN  /\ reply' = [reply EXCEPT ![r] = Some(rep)]
              /\ api_calls' = api_calls + (IF first.ok THEN 1 ELSE 2)
              /\ IF ~rep.ok
                 THEN Raise(r, rep.exc)
                 ELSE IF ~FirstBlockText(rep.value).ok
                      THEN Raise(r, FirstBlockText(rep.value).exc)
                      ELSE Finish(r, JSONResponse(ProductionResult(
                                          rep.value, document_text[r][1],
                                          FormLanguage(request[r][1].language))))
    /\ UNCHANGED << ANTHROPIC_API_KEY, client, files, request, tmp, content, pending,
                    document_text, upload, received, dispatched >>

\* lines 325-366: one call of client.messages.create, then the result
CallClaude(r) ==
    /\ pc[r] = "call"
    /\ \E rep \in Replies :
          /\ reply' = [reply EXCEPT ![r] = Some(rep)]
          /\ api_calls' = api_calls + 1
          /\ IF ~rep.ok
             THEN Raise(r, rep.exc)
             ELSE IF ~FirstBlockText(rep.value).ok
                  THEN Raise(r, FirstBlockText(rep.value).exc)
                  ELSE Finish(r, JSONResponse(ProductionResult(
                                      rep.value, document_text[r][1],
                                      FormLanguage(request[r][1].language))))
    /\ UNCHANGED << ANTHROPIC_API_KEY, client, files, request, tmp, content, pending,
                    document_text, upload, received, dispatched >>

\* the response has been sent: the request's objects are gone
Respond(r) ==
    /\ pc[r] = "done"
    /\ pc' = [pc EXCEPT ![r] = "idle"]
    /\ request' = [request EXCEPT ![r] = None]
    /\ tmp' = [tmp EXCEPT ![r] = None]
    /\ content' = [content EXCEPT ![r] = None]
    /\ pending' = [pending EXCEPT ![r] = None]
    /\ document_text' = [document_text EXCEPT ![r] = None]
    /\ reply' = [reply EXCEPT ![r] = None]
    /\ upload' = [upload EXCEPT ![r] = None]
    /\ response' = [response EXCEPT ![r] = None]
    /\ UNCHANGED << ANTHROPIC_API_KEY, client, files, received, dispatched, api_calls >>

Step(r) ==
    \/ CreateTemp(r)
    \/ ReadUpload(r)
    \/ Extract(r)
    \/ Cleanup(r)
    \/ Validate(r)
    \/ CallClaude(r)
    \/ Respond(r)

\* one worker, one request at a time, any request
Next ==
    \/ root(1)
    \/ health_check(1)
    \/ \E req \in AnalyzeRequests : analyze_document(1, req)
    \/ Step(1)

Spec == Init /\ [][Next]_vars

\* several requests in flight, their steps interleaved
NextConc ==
    \E r \in Reqs :
        \/ root(r)
        \/ health_check(r)
        \/ \E req \in ConcRequests : analyze_document(r, req)
        \/ Step(r)

SpecConc == Init /\ [][NextConc]_vars

(***************************************************************************)
(* The handler as one function of the request, the client, and what the    *)
(* upload and the service did for this request alone.                      *)
(***************************************************************************)
Ingest(req, up) ==
    IF req.file # None
    THEN IF up # Some("ok")
         THEN [ok |-> FALSE, exc |-> [type |-> "OSError"]]
         ELSE ExtractDocument(0 :> req.file[1].bytes, 0,
                              req.file[1].filename, req.file[1].bytes)
    ELSE IF TruthyText(req.text)
         THEN [ok |-> TRUE, value |-> Strip(req.text[1])]
         ELSE [ok |-> FALSE,
               exc |-> HTTPException(400, "Debe proporcionar un archivo (file) o texto (text)")]

ExpectedResponse(req, cl, up, rep) ==
    LET ingest == Ingest(req, up)
        language == FormLanguage(req.language)
    IN  IF ~ingest.ok THEN HandleException(ingest.exc)
        ELSE IF ingest.value = << >>
             THEN HandleException(HTTPException(400, "El documento esta vacio"))
        ELSE IF cl = None
             THEN JSONResponse(get_demo_response(ingest.value, language))
        ELSE IF ~rep[1].ok THEN HandleException(rep[1].exc)
        ELSE IF ~FirstBlockText(rep[1].value).ok
             THEN HandleException(FirstBlockText(rep[1].value).exc)
        ELSE JSONResponse(ProductionResult(rep[1].value, ingest.value, language))

(***************************************************************************)
(* Claims.                                                                 *)
(***************************************************************************)
Ended(r) == pc[r] = "done"

Analyze(r) == Ended(r) /\ request[r][1].endpoint = "analyze"

Status(r) == response[r][1].status_code

HasTxtName(r) ==
    /\ request[r][1].file # None
    /\ \E suffix \in TxtSuffixes : EndsWith(Lower(request[r][1].file[1].filename), suffix)

\* C1: once an analyze request with a file has ended, the temporary file it
\* created no longer exists, whatever path the request took (success,
\* extraction failure, empty document, an error while reading the upload or
\* writing it to the temporary file).
C1_TempFileGoneAtEnd ==
    \A r \in Reqs :
        (Analyze(r) /\ tmp[r] # None) => tmp[r][1] \notin DOMAIN files

\* C2: with no client (key absent, empty or the placeholder), every analyze
\* request whose ingested text is not empty ends with a 200 response whose
\* metadata.mode is "demo" and which echoes the character count of the text and
\* the language of the request; the service is never called.
C2_DemoWithoutCredential ==
    /\ client = None => api_calls = 0 /\ dispatched = 0
    /\ \A r \in Reqs :
          (/\ Analyze(r)
           /\ client = None
           /\ document_text[r] # None
           /\ document_text[r][1] # << >>)
          => /\ Status(r) = 200
             /\ response[r][1].body.success
             /\ response[r][1].body.metadata.mode = "demo"
             /\ response[r][1].body.metadata.chars_processed = Len(document_text[r][1])
             /\ response[r][1].body.metadata.language = FormLanguage(request[r][1].language)
             /\ reply[r] = None

C2_Witness ==
    \E r \in Reqs :
        /\ Analyze(r)
        /\ client = None
        /\ request[r][1].language = Some("EN")
        /\ request[r][1].file # None
        /\ document_text[r] # None
        /\ Status(r) = 200

\* C3: a request whose call of the language-model service failed ends with
\* 502, never 500 or 400; a request whose ingestion raised a validation
\* failure (no input, unreadable file, empty document) ends with 400 and the
\* detail of that failure, never 502 or 500.
C3_ErrorCategories ==
    \A r \in Reqs :
        Analyze(r) =>
            /\ (reply[r] # None /\ ~reply[r][1].ok) => Status(r) = 502
            /\ (pending[r] # None /\ ~pending[r][1].ok)
                  => /\ Status(r) = 400
                     /\ response[r][1].detail = pending[r][1].exc.detail
            /\ (request[r][1].file = None /\ document_text[r] = None) => Status(r) = 400
            /\ (document_text[r] # None /\ document_text[r][1] = << >>) => Status(r) = 400

C3_Witness ==
    \E r \in Reqs :
        /\ Analyze(r)
        /\ reply[r] # None
        /\ ~reply[r][1].ok
        /\ Status(r) = 502

\* C4: an analyze request with no file and with no text or the empty text
\* ends with 400 and the detail that a file or a text must be supplied, with or
\* without a client; neither the demo response nor a call of the service is
\* made for it.
C4_MissingInputRejected ==
    \A r \in Reqs :
        (/\ Analyze(r)
         /\ request[r][1].file = None
         /\ request[r][1].text \in { None, Some(<< >>) })
        => /\ response[r][1] =
                 ErrorResponse(400, "Debe proporcionar un archivo (file) o texto (text)")
           /\ reply[r] = None
           /\ document_text[r] = None

C4_Witness ==
    \E r \in Reqs :
        /\ Analyze(r)
        /\ client # None
        /\ request[r][1].file = None
        /\ request[r][1].text = Some(<< >>)
        /\ Status(r) = 400

\* C5: the dispatch step (the demo response or the call of the service) is
\* reached only with a document text that is not empty after trimming; a
\* request whose raw text or file yields no text or only whitespace ends with
\* 400 and no call.
C5_NonEmptyBeforeDispatch ==
    \A r \in Reqs :
        /\ (pc[r] = "call" \/ reply[r] # None \/ (Analyze(r) /\ Status(r) = 200))
              => /\ document_text[r] # None
                 /\ Strip(document_text[r][1]) # << >>
        /\ (/\ Analyze(r)
            /\ \/ /\ request[r][1].file = None
                  /\ request[r][1].text # None
                  /\ Strip(request[r][1].text[1]) = << >>
               \/ /\ upload[r] = Some("ok")
                  /\ LET u == request[r][1].file[1]
                         e == ExtractByExtension(0 :> u.bytes, 0, u.filename, u.bytes)
                     IN  e.ok /\ Strip(e.value) = << >>)
           => Status(r) = 400 /\ reply[r] = None

C5_Witness ==
    \E r \in Reqs :
        /\ Analyze(r)
        /\ request[r][1].file # None
        /\ request[r][1].file[1].bytes = << 37, 255 >>
        /\ EndsWith(Lower(request[r][1].file[1].filename), PdfSuffix)
        /\ upload[r] = Some("ok")
        /\ Status(r) = 400

\* C6: with a client, every request that passed validation has made exactly
\* one call of the service when it ends, also when the call failed; a request
\* that did not pass validation has made none; over all requests the number
\* of calls is the number of requests that reached the call.
C6_OneCallPerDispatch ==
    /\ api_calls + Cardinality({ r \in Reqs : pc[r] = "call" }) = dispatched
    /\ \A r \in Reqs :
          Analyze(r) =>
             (reply[r] # None <=>
                 /\ client # None
                 /\ document_text[r] # None
                 /\ document_text[r][1] # << >>)

C6_Witness ==
    /\ api_calls = 2
    /\ dispatched = 2
    /\ \E r \in Reqs : Analyze(r) /\ reply[r] # None /\ ~reply[r][1].ok

\* the text a Message carries: that of its first block, none when the content
\* is empty or the block is not a text block
ReturnedText(message) ==
    IF message.content # << >> /\ "text" \in DOMAIN message.content[1]
    THEN message.content[1].text
    ELSE ""

\* C7: with a client, every request whose call of the service succeeded ends
\* with a 200 production result whose analysis is the text the service
\* returned, also when the reply's content is empty or its first block has no
\* text.
C7_ProductionEchoesService ==
    \A r \in Reqs :
        (Analyze(r) /\ reply[r] # None /\ reply[r][1].ok)
        => /\ Status(r) = 200
           /\ response[r][1].body.metadata.api_mode = "production"
           /\ response[r][1].body.analysis = ReturnedText(reply[r][1].value)

\* C8: an upload named .txt, .doc or .docx whose bytes are not valid UTF-8
\* does not fail with a read error: the request fails only if the text is
\* empty after trimming.
C8_TxtNeverFailsToRead ==
    \A r \in Reqs :
        (Analyze(r) /\ HasTxtName(r) /\ upload[r] = Some("ok"))
        => /\ response[r][1] # ErrorResponse(400, "Error leyendo archivo de texto")
           /\ Status(r) = 400
                 => IsEmptyDocument(Utf8DecodeIgnore(request[r][1].file[1].bytes))

\* C9: under any interleaving of requests the client is never modified, two
\* uploads in flight never have the same temporary file, and the response of
\* every request is the one the handler gives for its own inputs, the client
\* and the service's reply to its own call.
C9_RequestsIndependent ==
    /\ [][client' = client /\ ANTHROPIC_API_KEY' = ANTHROPIC_API_KEY]_vars
    /\ [](\A r1, r2 \in Reqs :
             (r1 # r2 /\ tmp[r1] # None /\ tmp[r2] # None
                /\ pc[r1] \in { "read", "extract", "cleanup" }
                /\ pc[r2] \in { "read", "extract", "cleanup" })
             => tmp[r1] # tmp[r2])
    /\ [](\A r \in Reqs :
             Analyze(r) =>
                response[r][1] = ExpectedResponse(request[r][1], client, upload[r], reply[r]))

C9_Witness ==
    \E r1, r2 \in Reqs :
        /\ r1 # r2
        /\ pc[r1] = "cleanup"
        /\ Analyze(r2)
        /\ request[r2][1].file # None
        /\ upload[r2] = Some("ok")
        /\ request[r1][1].file[1].filename = request[r2][1].file[1].filename
        /\ request[r1][1].file[1].bytes # request[r2][1].file[1].bytes
        /\ Status(r2) = 200

\* C10: for every startup configuration the three indicators agree: GET /
\* reports api_key_configured exactly when GET /api/health reports
\* ai_available, exactly when POST /api/analyze takes the production path.
C10_IndicatorsAgree ==
    \A r \in Reqs :
        Ended(r) =>
            /\ request[r][1].endpoint = "root"
                  => response[r][1].body.api_key_configured = (client # None)
            /\ request[r][1].endpoint = "health"
                  => response[r][1].body.ai_available = (client # None)
            /\ (request[r][1].endpoint = "analyze" /\ Status(r) = 200)
                  => ("api_mode" \in DOMAIN response[r][1].body.metadata <=> client # None)

=============================================================================
